---- MODULE Spec2Model ----
(***************************************************************************)
(* Hooks runtime, component-instance wrapper and class module of           *)
(* snabbstate.                                                             *)
(*                                                                         *)
(*   src/src/reactive/define-component.ts   defineComponent/createInstance *)
(*   src/src/reactive/hooks-context.ts      HooksContext                   *)
(*   src/unnamed/part_000                   updateClass/classModule,       *)
(*                                          useState, useEffect, useRef,   *)
(*                                          useMemo, useForceUpdate        *)
(*                                                                         *)
(* Spec: one component instance.  Its component function is one of the    *)
(* programs of Components: hook calls around a statement at which user    *)
(* code may call the setter or useForceUpdate.  JavaScript is single      *)
(* threaded: the call stack is explicit, an uncaught exception unwinds    *)
(* it, and queued microtasks run only when the stack is empty, all of     *)
(* them before the next top-level task.  For the component with a state   *)
(* and a ref a second instance is created as well.                        *)
(*                                                                         *)
(* SpecClass: one element driven by the create and update hooks of the    *)
(* class module.                                                           *)
(***************************************************************************)
EXTENDS Integers, Sequences, FiniteSets, TLC

\* ---------------------------------------------------------------- bounds
\* component-function invocations explored in one behaviour
MaxInv == 3
\* frames the call stack holds before the engine raises RangeError
MaxDepth == 2

\* ------------------------------------------------------------ JS values
Undefined == "undefined"
\* the initial argument the component passes to useState
Initial == "0"
\* values user code passes to the setter
SetVals == {"1", Undefined}

\* a dependency-list argument: given = FALSE is an omitted argument
NoDeps == [given |-> FALSE, list |-> << >>]
Deps(l) == [given |-> TRUE, list |-> l]
\* lists the component passes to useEffect (deps [a, b], b varying)
EffectDeps == {NoDeps, Deps(<<"a", "b">>), Deps(<<"a", "c">>)}
\* lists the component passes to useMemo
MemoDeps == {NoDeps, Deps(<<"a">>), Deps(<<"b">>), Deps(<<"a", "a">>)}

\* One slot of ctx.hookStates.  A slot never written, and a slot holding
\* the value undefined, are the same thing in JavaScript: UndefSlot.
UndefSlot ==
  [tag |-> "undefined", val |-> Undefined, deps |-> NoDeps, cleanup |-> 0, value |-> 0]

ValueSlot(v) ==
  IF v = Undefined THEN UndefSlot ELSE [UndefSlot EXCEPT !.tag = "value", !.val = v]

\* JS truthiness of a slot's content
Truthy(s) ==
  /\ s.tag # "undefined"
  /\ ~(s.tag = "value" /\ s.val \in {"0", ""})

\* hookStates[i] (i counted from 0; reading past the end gives undefined)
Get(hs, i) == IF i < Len(hs) THEN hs[i + 1] ELSE UndefSlot

\* hookStates[i] = s (writing past the end grows the array)
Put(hs, i, s) ==
  IF i < Len(hs) THEN [hs EXCEPT ![i + 1] = s]
  ELSE [k \in 1..(i + 1) |-> IF k <= Len(hs) THEN hs[k] ELSE IF k = i + 1 THEN s ELSE UndefSlot]

\* list[i] of a JS array (i counted from 1 here); undefined out of range
At(l, i) == IF i <= Len(l) THEN l[i] ELSE Undefined

\* ----------------------------------------------------------------- hooks
\* useState: lines 52-54, the slot initialisation and the value read
useState(hs, index, initial) ==
  LET hs1 == IF Get(hs, index) = UndefSlot THEN Put(hs, index, ValueSlot(initial)) ELSE hs
  IN [hookStates |-> hs1, value |-> Get(hs1, index).val]

\* a setter that stores a new array ending at its slot
set_Truncate(hs, index, v) == Put(SubSeq(hs, 1, index), index, ValueSlot(v))

\* the setter's store, line 56
set(hs, index, v) == Put(hs, index, ValueSlot(v))

\* !deps || !old.deps || deps.some((d, i) => d !== old.deps[i])
hasChanged(deps, oldDeps) ==
  \/ ~deps.given
  \/ ~oldDeps.given
  \/ \E i \in 1..Len(deps.list) : deps.list[i] # At(oldDeps.list, i)

\* useEffect without line 84: the previous cleanup is never invoked
useEffect_NoCleanup(hs, index, deps) ==
  LET cur == Get(hs, index)
      old == IF Truthy(cur) THEN cur ELSE [UndefSlot EXCEPT !.tag = "effect"]
      changed == hasChanged(deps, old.deps)
  IN [hookStates |-> IF changed THEN Put(hs, index, [old EXCEPT !.deps = deps]) ELSE hs,
      queued |-> changed,
      cleanups |-> << >>]

\* useEffect, lines 78-93, up to the queueMicrotask call: the new slot
\* array, whether a body is queued, and the cleanups invoked (in order)
useEffect(hs, index, deps) ==
  LET cur == Get(hs, index)
      old == IF Truthy(cur) THEN cur ELSE [UndefSlot EXCEPT !.tag = "effect"]
      changed == hasChanged(deps, old.deps)
  IN [hookStates |-> IF changed THEN Put(hs, index, [old EXCEPT !.deps = deps]) ELSE hs,
      queued |-> changed,
      cleanups |-> IF changed /\ old.cleanup # 0 THEN <<old.cleanup>> ELSE << >>]

\* the queued callback, lines 87-88: c is the identity of the cleanup the
\* body returned, 0 when it returned no function
runEffectBody(hs, index, c) ==
  Put(hs, index, [Get(hs, index) EXCEPT !.cleanup = c])

\* useMemo, lines 128-140: fresh is the value factory() would return
useMemo(hs, index, deps, fresh) ==
  LET cur == Get(hs, index)
      old == IF Truthy(cur) THEN cur ELSE [UndefSlot EXCEPT !.tag = "memo"]
      changed == hasChanged(deps, old.deps)
      new == [old EXCEPT !.value = fresh, !.deps = deps]
  IN [hookStates |-> IF changed THEN Put(hs, index, new) ELSE hs,
      invoked |-> changed,
      value |-> IF changed THEN fresh ELSE old.value]

\* the initial value a component passes to useRef, and the values its code
\* writes into .current
RefInitial == "init"
RefVals == {"null", Undefined, "0", "false"}

\* the box { current: v }; id tells the box objects apart
Box(id, v) == [UndefSlot EXCEPT !.tag = "ref", !.val = v, !.value = id]

\* a useRef that allocates again when .current is falsy
useRef_CurrentFalsy(hs, index, initial, fresh) ==
  LET cur == Get(hs, index)
      hs1 == IF cur.tag # "ref" \/ cur.val \in RefVals
             THEN Put(hs, index, Box(fresh, initial)) ELSE hs
  IN [hookStates |-> hs1, ref |-> Get(hs1, index).value]

\* useRef, lines 107-111: fresh is the identity of the box a
\* { current: initial } expression would allocate; ref is the box returned
useRef(hs, index, initial, fresh) ==
  LET hs1 == IF ~Truthy(Get(hs, index)) THEN Put(hs, index, Box(fresh, initial)) ELSE hs
  IN [hookStates |-> hs1, ref |-> Get(hs1, index).value]

\* ref.current = v by the code that holds the box ref: a plain property
\* store into the box, wherever in hookStates the box is
writeCurrent(hs, ref, v) ==
  [k \in 1..Len(hs) |->
     IF hs[k].tag = "ref" /\ hs[k].value = ref THEN [hs[k] EXCEPT !.val = v] ELSE hs[k]]

\* ---------------------------------------------------------- class module
\* Strings are sequences of characters.  The class names of the model:
Names == {<<"a">>, <<"b">>}

\* the order in which for ... in visits the names of a class map
NameOrder == <<(<<"a">>), (<<"b">>)>>

\* vnode.data.class: a map object (id tells the objects apart) holding for
\* each name true, false, or no entry; id 0 is data.class undefined
ClassEntries == [Names -> {"absent", "true", "false"}]
NoMap == [id |-> 0, entries |-> [n \in Names |-> "absent"]]
ClassMaps == {NoMap} \cup [id : {1, 2}, entries : ClassEntries]

\* vnode.data.className: none, "a", " b  a"
ClassNameVals == {<< >>, <<"a">>, <<" ", "b", " ", " ", "a">>}

Call(op, name) == [op |-> op, name |-> name]

\* className.split(" "): tok is the piece being read
RECURSIVE split(_, _)
split(str, tok) ==
  IF str = << >> THEN <<tok>>
  ELSE IF Head(str) = " " THEN <<tok>> \o split(Tail(str), << >>)
  ELSE split(Tail(str), Append(tok, Head(str)))

\* an updateClass that never removes a name the new map dropped
removeStale_None(oldClass, klass) == << >>

\* updateClass, lines 18-23: the classList calls of the first loop
removeStale(oldClass, klass) ==
  LET gone == SelectSeq(NameOrder,
                LAMBDA n : oldClass.entries[n] = "true" /\ klass.entries[n] = "absent")
  IN [i \in 1..Len(gone) |-> Call("remove", gone[i])]

\* an updateClass that applies every entry of the new map, changed or not
applyChanged_All(oldClass, klass) ==
  LET given == SelectSeq(NameOrder, LAMBDA n : klass.entries[n] # "absent")
  IN [i \in 1..Len(given) |->
        Call(IF klass.entries[given[i]] = "true" THEN "add" ELSE "remove", given[i])]

\* updateClass, lines 24-29: the classList calls of the second loop
applyChanged(oldClass, klass) ==
  LET given == SelectSeq(NameOrder,
               LAMBDA n : klass.entries[n] # "absent" /\ klass.entries[n] # oldClass.entries[n])
  IN [i \in 1..Len(given) |->
        Call(IF klass.entries[given[i]] = "true" THEN "add" ELSE "remove", given[i])]

\* updateClass, lines 30-33: classList.add of the pieces of className
addClassName(className) ==
  IF className = << >> THEN << >>
  ELSE LET pieces == SelectSeq(split(className, << >>), LAMBDA c : Len(c) > 0)
       IN [i \in 1..Len(pieces) |-> Call("add", pieces[i])]

\* updateClass(oldVnode, vnode): the classList calls it makes, in order
updateClass(oldClass, klass, className) ==
  IF oldClass.id = 0 /\ klass.id = 0 THEN << >>
  ELSE IF oldClass.id = klass.id THEN << >>
  ELSE removeStale(oldClass, klass) \o applyChanged(oldClass, klass) \o addClassName(className)

\* elm.classList after the calls ops
RECURSIVE classListAfter(_, _)
classListAfter(list, ops) ==
  IF ops = << >> THEN list
  ELSE classListAfter(IF Head(ops).op = "add" THEN list \cup {Head(ops).name}
                      ELSE list \ {Head(ops).name},
                      Tail(ops))

\* ----------------------------------------------------- instance wrapper
\* a destroy() that leaves oldVNode alone
destroy_Keep(old) == old

\* destroy(), line 46: the value it stores into oldVNode (0 is null)
destroy(old) == 0

\* createInstance, lines 29-31: the ctx literal is evaluated once per
\* instance, so the n-th instance gets a hookStates array of its own
ctxOf(n) == n

\* patch(oldRoot, newRoot) of the patch engine: callable only when
\* oldRoot.element is bound, otherwise a hard error; returns newRoot, bound
patch(old, new, boundSet) ==
  IF old \in boundSet
  THEN [ok |-> TRUE, result |-> new, bound |-> boundSet \cup {new}]
  ELSE [ok |-> FALSE, result |-> old, bound |-> boundSet]

\* update(), lines 35-36, after componentFn returned new
updateCommit(old, new, boundSet) ==
  IF old = 0
  THEN [outcome |-> "throwNull", oldVNode |-> old, bound |-> boundSet, patched |-> FALSE]
  ELSE LET p == patch(old, new, boundSet)
       IN [outcome |-> IF p.ok THEN "patched" ELSE "throwPatch",
           oldVNode |-> IF p.ok THEN p.result ELSE old,
           bound |-> p.bound,
           patched |-> TRUE]

\* the component functions defineComponent is given: the statements of each
\* in order; "body" is a statement of user code between the hooks
Components ==
  {<<"useState", "body", "useEffect">>,
   <<"useState", "body", "useMemo">>,
   <<"useEffect", "body", "useEffect">>,
   <<"useState", "body", "useRef">>}

Last(q) == q[Len(q)]

\* ---------------------------------------------------------------- state
VARIABLES
  componentFn,   \* the component function given to defineComponent
  instance,      \* "none", "creating", "live" (createInstance returned), "failed" (it threw)
  hookStates,    \* ctx.hookStates
  hookIndex,     \* ctx.hookIndex
  oldVNode,      \* createInstance's oldVNode: a vnode identity, 0 for null
  vnode,         \* createInstance's const vnode: 0 while not yet initialised
  bound,         \* the vnodes whose elm is bound to a live element
  stack,         \* the call stack: one frame per running componentFn invocation
  microtasks,    \* the microtask queue: effect bodies queued by useEffect
  draining,      \* a microtask checkpoint has begun and the queue is not yet empty
  invocations,   \* componentFn invocations so far; the n-th returns vnode n
  destroyed,     \* history: destroy() has been called
  sched,         \* history: one record per effect body queued
  cleanupCalls,  \* history: cleanupCalls[c] = invocations of the cleanup returned by body c
  outcomes,      \* history: the update() calls the latest return or throw ended, and how
  lastMemo,      \* history: the latest useMemo call
  memoArgs,      \* history: per hook index, the deps argument of the latest useMemo call there
  factoryCalls,  \* history: invocations of the useMemo factory
  lastSet,       \* history: the value of the latest setter call, "none" before the first
  siblingStates, \* ctx.hookStates of a second instance of the same component
  siblingMade,   \* createInstance has returned the second instance
  classList,     \* class module: elm.classList of the element
  elmVnode,      \* class module: the vnode last given for the element
  lastClass,     \* history: the latest updateClass call
  allDistinct,   \* history: no vnode so far carried the class map object of the vnode before it
  noClassName,   \* history: no vnode so far carried a className
  boxes,         \* the number of boxes useRef has allocated
  lastRef,       \* history: the latest useRef call
  refBoxes,      \* history: per hook index, the box the latest useRef call there returned (0: none)
  refWritten,    \* history: the value of the latest store into .current
  lastRun,       \* history: the latest effect body run
  lastEffect,    \* history: the latest useEffect call
  effectArgs,    \* history: per statement of componentFn, the deps of its latest useEffect call
  committed      \* history: the vnode the latest patch call returned, 0 before the first

hookVars ==
  <<siblingStates, siblingMade, boxes, lastRef, refBoxes, refWritten, lastRun, lastEffect, effectArgs, componentFn, instance, hookStates, hookIndex, oldVNode, vnode, bound, stack, microtasks, draining,
    invocations, destroyed, sched, cleanupCalls, outcomes, lastMemo, memoArgs, factoryCalls,
    lastSet,
    committed>>

classVars == <<classList, elmVnode, lastClass, allDistinct, noClassName>>
vars == <<hookVars, classVars>>

ctxVars == <<hookStates, hookIndex>>
wrapperVars == <<oldVNode, vnode, bound, destroyed, committed>>
effectVars == <<microtasks, draining, sched, cleanupCalls>>
memoVars == <<lastMemo, memoArgs, factoryCalls>>
effectHist == <<lastEffect, effectArgs>>

NeverCalled == [called |-> FALSE, deps |-> NoDeps]

siblingVars == <<siblingStates, siblingMade>>
refVars == <<boxes, lastRef, refBoxes, refWritten>>

NoRef == [called |-> FALSE, index |-> 0, prev |-> 0, ref |-> 0, before |-> Undefined,
          current |-> Undefined]

NoVnode == [made |-> FALSE, class |-> NoMap, className |-> << >>]
NoClassCall == [called |-> FALSE, hook |-> "none", old |-> NoMap, new |-> NoMap,
                className |-> << >>, ops |-> << >>]

\* no element has been created yet
ClassIdle ==
  /\ classList = {}
  /\ elmVnode = NoVnode
  /\ lastClass = NoClassCall
  /\ allDistinct = TRUE
  /\ noClassName = TRUE

NoRun == [sched |-> 0, renderedSince |-> FALSE, destroyedSince |-> FALSE]

NoEffect == [called |-> FALSE, deps |-> NoDeps, first |-> FALSE, prev |-> NoDeps,
             queued |-> FALSE, cleanups |-> 0]

NoMemo == [called |-> FALSE, plain |-> FALSE, first |-> FALSE, deps |-> NoDeps, prev |-> NoDeps,
           invoked |-> FALSE, value |-> 0, cached |-> 0]

HooksIdle ==
  /\ instance = "none"
  /\ hookStates = << >>
  /\ hookIndex = 0
  /\ oldVNode = 0
  /\ vnode = 0
  /\ bound = {}
  /\ stack = << >>
  /\ microtasks = << >>
  /\ draining = FALSE
  /\ invocations = 0
  /\ destroyed = FALSE
  /\ sched = << >>
  /\ cleanupCalls = << >>
  /\ outcomes = {}
  /\ lastMemo = NoMemo
  /\ lastEffect = NoEffect
  /\ lastRun = NoRun
  /\ boxes = 0
  /\ lastRef = NoRef
  /\ refBoxes = << >>
  /\ refWritten = "none"
  /\ effectArgs = [pc \in 1..Len(componentFn) |-> NeverCalled]
  /\ memoArgs = << >>
  /\ factoryCalls = 0
  /\ lastSet = "none"
  /\ committed = 0
  /\ siblingStates = << >>
  /\ siblingMade = FALSE

Init ==
  /\ componentFn \in Components
  /\ HooksIdle
  /\ ClassIdle

\* ctx.vNode(), the accessor elementNode of createInstance
elementNode == vnode

\* a first tree has been committed to the live surface
Committed == vnode # 0 /\ vnode \in bound

\* the frame of a componentFn invocation
Frame(id, kind, via, where, v) ==
  [id |-> id, kind |-> kind, pc |-> 1, via |-> via, where |-> where, setVal |-> v,
   read |-> "notyet", setAtRead |-> "none", stateIndex |-> 0, calls |-> 0,
   destroyedAtCall |-> destroyed, committedAtCall |-> Committed]

\* how an update() call ended, and whether it called patch
Outcome(f, out, patched) ==
  [via |-> f.via, destroyedAtCall |-> f.destroyedAtCall,
   committedAtCall |-> f.committedAtCall, outcome |-> out, patchCalled |-> patched,
   id |-> f.id, hooks |-> f.calls]

\* an uncaught exception: every frame of stk is abandoned; patched tells
\* whether the update() call of the top frame had called patch
Unwind(stk, out, patched) ==
  /\ stack' = << >>
  /\ outcomes' =
       {Outcome(stk[i], out, patched /\ i = Len(stk)) :
          i \in {j \in 1..Len(stk) : stk[j].kind = "update"}}
  /\ instance' = IF instance = "creating" THEN "failed" ELSE instance

\* a call of ctx.update() with stk the stack of its caller: line 33 and the
\* call of componentFn of line 34, or RangeError when the stack is full
CallUpdate(stk, via, where, v) ==
  IF Len(stk) >= MaxDepth
  THEN /\ Unwind(Append(stk, Frame(0, "update", via, where, v)), "overflow", FALSE)
       /\ UNCHANGED <<hookIndex, invocations>>
  ELSE /\ hookIndex' = 0
       /\ invocations' = invocations + 1
       /\ stack' = Append(stk, Frame(invocations + 1, "update", via, where, v))
       /\ UNCHANGED <<outcomes, instance>>

\* a further update() call is explored: it starts an invocation within
\* MaxInv, or it overflows the stack and starts none
CanCall(stk) == invocations < MaxInv \/ Len(stk) >= MaxDepth

\* top-level code (an event handler, the caller of createInstance) runs
TopLevel == stack = << >> /\ ~draining

\* createInstance(props): the call of componentFn of line 40
CreateInstance ==
  /\ TopLevel
  /\ instance = "none"
  /\ instance' = "creating"
  /\ invocations' = invocations + 1
  /\ stack' = <<Frame(invocations + 1, "create", "create", "top", "none")>>
  /\ UNCHANGED <<classVars, siblingVars, componentFn, refVars, lastRun, effectHist, ctxVars, wrapperVars, effectVars, memoVars, outcomes, lastSet>>

\* the running invocation is at statement op
AtStatement(op) ==
  /\ stack # << >>
  /\ Last(stack).pc <= Len(componentFn)
  /\ componentFn[Last(stack).pc] = op

Advance(f) == [f EXCEPT !.pc = @ + 1]
HookDone(f) == [f EXCEPT !.pc = @ + 1, !.calls = @ + 1]
ReplaceTop(stk, f) == [stk EXCEPT ![Len(stk)] = f]

\* the invocation f is the only one on the stack, entered from top-level
\* code, and no nested invocation has moved hookIndex under it
Plain(f) == Len(stack) = 1 /\ f.where = "top" /\ hookIndex = f.calls

\* const [value, set] = useState(ctx, Initial)
StepUseState ==
  /\ AtStatement("useState")
  /\ LET r == useState(hookStates, hookIndex, Initial)
     IN /\ hookStates' = r.hookStates
        /\ stack' = ReplaceTop(stack, [HookDone(Last(stack)) EXCEPT
                                          !.read = r.value, !.setAtRead = lastSet,
                                          !.stateIndex = hookIndex])
  /\ hookIndex' = hookIndex + 1
  /\ UNCHANGED <<classVars, siblingVars, componentFn, refVars, lastRun, effectHist, instance, wrapperVars, effectVars, memoVars, invocations, outcomes, lastSet>>

\* the statement between the hooks: user code may do nothing, call the
\* setter this invocation got from useState, or call useForceUpdate(ctx)
StepBody ==
  /\ AtStatement("body")
  /\ LET caller == ReplaceTop(stack, Advance(Last(stack)))
     IN \/ /\ stack' = caller
           /\ UNCHANGED <<ctxVars, instance, invocations, outcomes, lastSet>>
        \/ /\ CanCall(caller)
           /\ Last(stack).read # "notyet"
           /\ \E v \in SetVals :
                /\ hookStates' = set(hookStates, Last(stack).stateIndex, v)
                /\ lastSet' = v
                /\ CallUpdate(caller, "set", "render", v)
        \/ /\ CanCall(caller)
           /\ CallUpdate(caller, "force", "render", "none")
           /\ UNCHANGED <<hookStates, lastSet>>
  /\ UNCHANGED <<classVars, siblingVars, componentFn, refVars, lastRun, effectHist, wrapperVars, effectVars, memoVars>>

\* the latest body queued for the effect hook at slot i, 0 when none
LastSched(i) ==
  LET S == {k \in 1..Len(sched) : sched[k].slot = i}
  IN IF S = {} THEN 0 ELSE CHOOSE k \in S : \A j \in S : j <= k

Bump(calls, cs) ==
  [c \in 1..Len(calls) |-> calls[c] + Cardinality({k \in 1..Len(cs) : cs[k] = c})]

\* both lists are given, of one length, and differ in the last position only
OnlyLastChanged(oldDeps, deps) ==
  /\ oldDeps.given /\ deps.given
  /\ Len(oldDeps.list) = Len(deps.list)
  /\ \A i \in 1..Len(deps.list) : (deps.list[i] # oldDeps.list[i]) <=> (i = Len(deps.list))

\* useEffect(ctx, callback, deps)
\* a queueMicrotask that replaces the pending callback of the same hook
queueMicrotask_Replace(q, t) ==
  Append(SelectSeq(q, LAMBDA x : x.slot # t.slot), t)

\* queueMicrotask(callback), line 86: the callback joins the end of the queue
queueMicrotask(q, t) ==
  Append(q, t)

\* the deps arguments a component passes to its useEffect calls: the
\* component with two effects passes none, so both run after every render;
\* the component with one effect passes a list
EffectDepsOf(fn) ==
  IF fn = <<"useEffect", "body", "useEffect">> THEN {NoDeps} ELSE EffectDeps \ {NoDeps}

StepUseEffect ==
  /\ AtStatement("useEffect")
  /\ \E deps \in EffectDepsOf(componentFn) :
       LET r == useEffect(hookStates, hookIndex, deps)
           p == LastSched(hookIndex)
           calls == Bump(cleanupCalls, r.cleanups)
           n == Len(sched) + 1
       IN /\ hookStates' = r.hookStates
          /\ lastEffect' = [called |-> TRUE, deps |-> deps,
                            first |-> ~effectArgs[Last(stack).pc].called,
                            prev |-> effectArgs[Last(stack).pc].deps,
                            queued |-> r.queued, cleanups |-> Len(r.cleanups)]
          /\ effectArgs' = [effectArgs EXCEPT ![Last(stack).pc] = [called |-> TRUE, deps |-> deps]]
          /\ IF r.queued
             THEN /\ microtasks' = queueMicrotask(microtasks, [slot |-> hookIndex, sched |-> n])
                  /\ sched' = Append(sched,
                       [slot |-> hookIndex, inv |-> Last(stack).id,
                        onlyLast |-> OnlyLastChanged(Get(hookStates, hookIndex).deps, deps),
                        prev |-> p,
                        prevReturned |-> p # 0 /\ sched[p].ran /\ sched[p].ret,
                        prevCalls |-> IF p = 0 THEN 0 ELSE calls[p],
                        ran |-> FALSE, ret |-> FALSE, inFlight |-> FALSE, order |-> 0,
                        invAtQueue |-> invocations, liveAtQueue |-> ~destroyed,
                        plain |-> Plain(Last(stack))])
                  /\ cleanupCalls' = Append(calls, 0)
             ELSE /\ cleanupCalls' = calls
                  /\ UNCHANGED <<microtasks, sched>>
  /\ hookIndex' = hookIndex + 1
  /\ stack' = ReplaceTop(stack, HookDone(Last(stack)))
  /\ UNCHANGED <<classVars, siblingVars, componentFn, refVars, lastRun, instance, wrapperVars, draining, memoVars, invocations, outcomes, lastSet>>

MemoArg(i) == IF i < Len(memoArgs) THEN memoArgs[i + 1] ELSE NeverCalled
PutMemoArg(i, d) ==
  [k \in 1..(IF i < Len(memoArgs) THEN Len(memoArgs) ELSE i + 1) |->
     IF k = i + 1 THEN [called |-> TRUE, deps |-> d]
     ELSE IF k <= Len(memoArgs) THEN memoArgs[k] ELSE NeverCalled]

\* useMemo(ctx, factory, deps): the n-th factory invocation returns n
StepUseMemo ==
  /\ AtStatement("useMemo")
  /\ \E deps \in MemoDeps :
       LET r == useMemo(hookStates, hookIndex, deps, factoryCalls + 1)
       IN /\ hookStates' = r.hookStates
          /\ factoryCalls' = IF r.invoked THEN factoryCalls + 1 ELSE factoryCalls
          /\ lastMemo' = [called |-> TRUE, plain |-> Plain(Last(stack)),
                          first |-> ~MemoArg(hookIndex).called, deps |-> deps,
                          prev |-> MemoArg(hookIndex).deps, invoked |-> r.invoked,
                          value |-> r.value, cached |-> Get(hookStates, hookIndex).value]
          /\ memoArgs' = PutMemoArg(hookIndex, deps)
  /\ hookIndex' = hookIndex + 1
  /\ stack' = ReplaceTop(stack, HookDone(Last(stack)))
  /\ UNCHANGED <<classVars, siblingVars, componentFn, refVars, lastRun, effectHist, instance, wrapperVars, effectVars, invocations, outcomes, lastSet>>

RefBox(i) == IF i < Len(refBoxes) THEN refBoxes[i + 1] ELSE 0
PutRefBox(i, b) ==
  [k \in 1..(IF i < Len(refBoxes) THEN Len(refBoxes) ELSE i + 1) |->
     IF k = i + 1 THEN b ELSE IF k <= Len(refBoxes) THEN refBoxes[k] ELSE 0]

\* const ref = useRef(ctx, RefInitial)
StepUseRef ==
  /\ AtStatement("useRef")
  /\ LET r == useRef(hookStates, hookIndex, RefInitial, boxes + 1)
     IN /\ hookStates' = r.hookStates
        /\ boxes' = IF r.ref = boxes + 1 THEN boxes + 1 ELSE boxes
        /\ lastRef' = [called |-> TRUE, index |-> hookIndex, prev |-> RefBox(hookIndex),
                       ref |-> r.ref, before |-> Get(hookStates, hookIndex).val,
                       current |-> Get(r.hookStates, hookIndex).val]
        /\ refBoxes' = PutRefBox(hookIndex, r.ref)
  /\ hookIndex' = hookIndex + 1
  /\ stack' = ReplaceTop(stack, HookDone(Last(stack)))
  /\ UNCHANGED <<classVars, siblingVars, componentFn, refWritten, lastRun, effectHist, instance, wrapperVars, effectVars, memoVars,
                 invocations, outcomes, lastSet>>

\* code that holds the box of the latest useRef call (an event handler)
\* stores v into its .current
WriteRef ==
  /\ TopLevel
  /\ lastRef.called
  /\ \E v \in RefVals :
       /\ refWritten' = v
       /\ hookStates' = writeCurrent(hookStates, lastRef.ref, v)
  /\ UNCHANGED <<classVars, siblingVars, componentFn, boxes, lastRef, refBoxes, lastRun, effectHist, hookIndex, instance, wrapperVars,
                 stack, effectVars, memoVars, invocations, outcomes, lastSet>>

Returning(kind) ==
  /\ stack # << >>
  /\ Last(stack).pc > Len(componentFn)
  /\ Last(stack).kind = kind

Pop(stk) == SubSeq(stk, 1, Len(stk) - 1)

\* createInstance, lines 40-48: componentFn returned the initial vnode
FinishCreate ==
  /\ Returning("create")
  /\ vnode' = Last(stack).id
  /\ oldVNode' = Last(stack).id
  /\ instance' = "live"
  /\ stack' = Pop(stack)
  /\ UNCHANGED <<classVars, siblingVars, componentFn, refVars, lastRun, effectHist, ctxVars, bound, destroyed, committed, effectVars, memoVars,
                 invocations, outcomes, lastSet>>

\* update(), lines 35-36: componentFn returned newVNode
FinishUpdate ==
  /\ Returning("update")
  /\ LET r == updateCommit(oldVNode, Last(stack).id, bound)
     IN /\ oldVNode' = r.oldVNode
        /\ bound' = r.bound
        /\ committed' = IF r.outcome = "patched" THEN r.oldVNode ELSE committed
        /\ IF r.outcome = "patched"
           THEN /\ stack' = Pop(stack)
                /\ outcomes' = {Outcome(Last(stack), "patched", TRUE)}
                /\ UNCHANGED instance
           ELSE Unwind(stack, r.outcome, r.patched)
  /\ UNCHANGED <<classVars, siblingVars, componentFn, refVars, lastRun, effectHist, ctxVars, vnode, destroyed, effectVars, memoVars, invocations, lastSet>>

\* instance.update() called by top-level code
Update ==
  /\ TopLevel
  /\ instance = "live"
  /\ CanCall(stack)
  /\ CallUpdate(stack, "direct", "top", "none")
  /\ UNCHANGED <<classVars, siblingVars, componentFn, refVars, lastRun, effectHist, hookStates, wrapperVars, effectVars, memoVars, lastSet>>

\* the component calls useState, so its renders hand out a setter
HasSetter == \E i \in 1..Len(componentFn) : componentFn[i] = "useState"

\* a setter handed out by an earlier render, called by top-level code
SetState ==
  /\ TopLevel
  /\ instance = "live"
  /\ HasSetter
  /\ CanCall(stack)
  /\ \E v \in SetVals :
       /\ hookStates' = set(hookStates, 0, v)
       /\ lastSet' = v
       /\ CallUpdate(stack, "set", "top", v)
  /\ UNCHANGED <<classVars, siblingVars, componentFn, refVars, lastRun, effectHist, wrapperVars, effectVars, memoVars>>

\* useForceUpdate(ctx) called by top-level code
ForceUpdate ==
  /\ TopLevel
  /\ instance = "live"
  /\ CanCall(stack)
  /\ CallUpdate(stack, "force", "top", "none")
  /\ UNCHANGED <<classVars, siblingVars, componentFn, refVars, lastRun, effectHist, hookStates, wrapperVars, effectVars, memoVars, lastSet>>

\* instance.destroy()
Destroy ==
  /\ TopLevel
  /\ instance = "live"
  /\ ~destroyed
  /\ oldVNode' = destroy(oldVNode)
  /\ destroyed' = TRUE
  /\ UNCHANGED <<classVars, siblingVars, componentFn, refVars, lastRun, effectHist, ctxVars, instance, vnode, bound, committed, stack, effectVars,
                 memoVars, invocations, outcomes, lastSet>>

\* the caller mounts the initial tree: patch(container, instance.vnode)
Mount ==
  /\ TopLevel
  /\ instance = "live"
  /\ vnode \notin bound
  /\ bound' = bound \cup {vnode}
  /\ UNCHANGED <<classVars, siblingVars, componentFn, refVars, lastRun, effectHist, ctxVars, instance, oldVNode, vnode, destroyed, committed, stack,
                 effectVars, memoVars, invocations, outcomes, lastSet>>

\* two instances are created of the component with a state and a ref
TwoInstances == componentFn = <<"useState", "body", "useRef">>

\* the hookStates array of the second instance
SiblingStates == IF ctxOf(2) = ctxOf(1) THEN hookStates ELSE siblingStates

\* the array hs of the second instance after one run of its component
\* function: useState, a body that calls nothing, useRef
siblingRender(hs) ==
  useRef(useState(hs, 0, Initial).hookStates, 1, RefInitial, 0).hookStates

\* the second instance's array becomes hs
SiblingStore(hs) ==
  IF ctxOf(2) = ctxOf(1)
  THEN hookStates' = hs /\ UNCHANGED siblingStates
  ELSE siblingStates' = hs /\ UNCHANGED hookStates

\* createInstance(props) for the second instance
SiblingCreate ==
  /\ TwoInstances
  /\ TopLevel
  /\ ~siblingMade
  /\ siblingMade' = TRUE
  /\ SiblingStore(siblingRender(SiblingStates))
  /\ UNCHANGED <<classVars, componentFn, refVars, lastRun, effectHist, hookIndex, instance, wrapperVars,
                 stack, effectVars, memoVars, invocations, outcomes, lastSet>>

\* the setter of the second instance called by top-level code: the store
\* of line 56 and the render of its update()
SiblingSetState ==
  /\ TwoInstances
  /\ TopLevel
  /\ siblingMade
  /\ \E v \in SetVals : SiblingStore(siblingRender(set(SiblingStates, 0, v)))
  /\ UNCHANGED <<classVars, componentFn, siblingMade, refVars, lastRun, effectHist, hookIndex, instance,
                 wrapperVars, stack, effectVars, memoVars, invocations, outcomes, lastSet>>

\* the effect body called at once instead of through queueMicrotask
MicrotaskTurn_Sync == TRUE

\* a queued microtask may run: the call stack is empty
MicrotaskTurn == stack = << >>

\* the microtask queued by useEffect runs: lines 86-89
RunEffect ==
  /\ MicrotaskTurn
  /\ microtasks # << >>
  /\ LET t == Head(microtasks)
     IN \E ret \in BOOLEAN :
          /\ hookStates' = runEffectBody(hookStates, t.slot, IF ret THEN t.sched ELSE 0)
          /\ sched' = [sched EXCEPT ![t.sched].ran = TRUE, ![t.sched].ret = ret,
                         ![t.sched].order = 1 + Cardinality({k \in 1..Len(sched) : sched[k].ran}),
                         ![t.sched].inFlight = \E k \in 1..Len(stack) : stack[k].id = sched[t.sched].inv]
          /\ lastRun' = [sched |-> t.sched,
                         renderedSince |-> invocations > sched[t.sched].invAtQueue,
                         destroyedSince |-> destroyed /\ sched[t.sched].liveAtQueue]
  /\ microtasks' = Tail(microtasks)
  /\ draining' = (Tail(microtasks) # << >>)
  /\ UNCHANGED <<classVars, siblingVars, componentFn, refVars, effectHist, hookIndex, instance, wrapperVars, stack, cleanupCalls, memoVars, invocations,
                 outcomes, lastSet>>

Next ==
  \/ CreateInstance
  \/ StepUseState
  \/ StepBody
  \/ StepUseEffect
  \/ StepUseMemo
  \/ StepUseRef
  \/ WriteRef
  \/ FinishCreate
  \/ FinishUpdate
  \/ Update
  \/ SetState
  \/ ForceUpdate
  \/ Destroy
  \/ Mount
  \/ RunEffect
  \/ SiblingCreate
  \/ SiblingSetState

Spec == Init /\ [][Next]_vars

\* ------------------------------------------- class module: create, update
\* one call of updateClass(oldVnode, vnode) by the patch engine and its
\* effect on the element
ClassCall(hook, old, new, className) ==
  LET ops == updateClass(old, new, className)
  IN /\ classList' = classListAfter(classList, ops)
     /\ elmVnode' = [made |-> TRUE, class |-> new, className |-> className]
     /\ lastClass' = [called |-> TRUE, hook |-> hook, old |-> old, new |-> new,
                      className |-> className, ops |-> ops]
     /\ noClassName' = (noClassName /\ className = << >>)
     /\ UNCHANGED hookVars

\* a map object other than the one the element's vnode carries
FreshId == IF elmVnode.class.id = 1 THEN 2 ELSE 1

\* the patch engine creates the element: the create hook is called with
\* the empty vnode (no data.class) and the new vnode
ClassCreate ==
  /\ ~elmVnode.made
  /\ \E new \in ClassMaps, className \in ClassNameVals :
       /\ new.id \in {0, FreshId}
       /\ ClassCall("create", NoMap, new, className)
  /\ UNCHANGED allDistinct

\* the patch engine patches the element with a vnode that has no class map
\* or a class map object of its own
ClassUpdate ==
  /\ elmVnode.made
  /\ \E new \in ClassMaps, className \in ClassNameVals :
       /\ new.id \in {0, FreshId}
       /\ ClassCall("update", elmVnode.class, new, className)
  /\ UNCHANGED allDistinct

\* the patch engine patches the element with a vnode that carries the map
\* object of the vnode before it, its entries edited in place
ClassUpdateSameMap ==
  /\ elmVnode.made
  /\ elmVnode.class.id # 0
  /\ \E new \in ClassMaps, className \in ClassNameVals :
       /\ new.id = elmVnode.class.id
       /\ ClassCall("update", new, new, className)
  /\ allDistinct' = FALSE

NextClass ==
  \/ ClassCreate
  \/ ClassUpdate
  \/ ClassUpdateSameMap

InitClass ==
  /\ componentFn = <<"useState", "body", "useEffect">>
  /\ HooksIdle
  /\ ClassIdle

SpecClass == InitClass /\ [][NextClass]_vars

TypeOK ==
  /\ instance \in {"none", "creating", "live", "failed"}
  /\ hookIndex \in Nat
  /\ Len(stack) <= MaxDepth
  /\ invocations <= MaxInv

\* ---------------------------------------------------------------- claims
Frames == {stack[i] : i \in 1..Len(stack)}

\* C1: when a render finds an effect's deps changed and the effect's
\* previous body has run and returned a cleanup, the render invokes that
\* cleanup, the cleanup has then been invoked exactly once, and this is before
\* the body the render queues runs.
C1_CleanupOnceBeforeNewBody ==
  \A k \in 1..Len(sched) :
    sched[k].prevReturned =>
      /\ sched[k].prevCalls = 1
      /\ sched[k].ran => cleanupCalls[sched[k].prev] >= 1

\* C1 witness: of the deps [a, b] only b changed, the previous body had
\* returned a cleanup, and the new body has run
C1_Witness ==
  \E k \in 1..Len(sched) :
    /\ sched[k].prevReturned
    /\ sched[k].onlyLast
    /\ sched[k].ran

\* C2: an effect body never runs while the componentFn invocation that
\* queued it, or the update() call around that invocation, is still on the
\* call stack.
C2_EffectBodyAfterRender ==
  \A k \in 1..Len(sched) : sched[k].ran => ~sched[k].inFlight

\* C2 witness: a body queued by the render of an update() has run, after
\* that update() committed its tree
C2_Witness ==
  \E k \in 1..Len(sched) :
    /\ sched[k].ran
    /\ sched[k].inv > 1
    /\ committed = sched[k].inv

\* C3: every update() call made after destroy() ends in a thrown error and
\* does not call patch.
C3_UpdateAfterDestroyRejected ==
  \A o \in outcomes :
    o.destroyedAtCall => (o.outcome \in {"throwNull", "overflow"} /\ ~o.patchCalled)

\* C3 witness: after destroy(), useForceUpdate called update(), the render
\* of that call called a setter, and both update() calls threw
C3_Witness ==
  \A via \in {"set", "force"} :
    \E o \in outcomes : o.destroyedAtCall /\ o.via = via /\ o.outcome = "throwNull"

\* C4: every update() call made before a first tree is committed to the
\* live surface ends in a thrown error and patch is not called.
C4_NoPatchBeforeCommit ==
  \A o \in outcomes :
    ~o.committedAtCall => (o.outcome # "patched" /\ ~o.patchCalled)

\* C5: the componentFn invocation run by the update() of a setter call with
\* value v reads v from useState (stated for setter calls made by top-level
\* code on a committed, not destroyed instance).
C5_RenderReadsSetValue ==
  \A f \in Frames :
    (f.via = "set" /\ f.where = "top" /\ f.committedAtCall /\ ~f.destroyedAtCall
       /\ f.read # "notyet")
      => f.read = f.setVal

\* C6: useState returns the initial value while no setter has run and
\* afterwards the last value passed to the setter, whatever that value is
\* (stated for the renders top-level code starts).
C6_StateIsLastStored ==
  \A f \in Frames :
    (f.where = "top" /\ f.read # "notyet")
      => f.read = (IF f.setAtRead = "none" THEN Initial ELSE f.setAtRead)

\* the dependency lists differ: a different length, or a different element
\* at some position (a call without a list has no list to be equal to)
ListsDiffer(prev, deps) ==
  \/ ~prev.given
  \/ Len(prev.list) # Len(deps.list)
  \/ \E i \in 1..Len(deps.list) : deps.list[i] # prev.list[i]

\* C7: useMemo invokes its factory if and only if it is the first call at
\* its index, or no deps are supplied, or the deps differ from those of the
\* previous call; otherwise it returns the cached value (stated for renders
\* that are not nested in another render).
C7_FactoryIffDepsDiffer ==
  (lastMemo.called /\ lastMemo.plain) =>
    /\ lastMemo.invoked <=>
         (lastMemo.first \/ ~lastMemo.deps.given \/ ListsDiffer(lastMemo.prev, lastMemo.deps))
    /\ ~lastMemo.invoked => lastMemo.value = lastMemo.cached

\* C8: once update() calls have committed, ctx.vNode() returns the vnode
\* the latest patch call returned.
C8_AccessorIsCommittedTree ==
  (committed # 0 /\ stack = << >>) => elementNode = committed

\* C9: during a componentFn invocation hookIndex equals the number of hook
\* calls the invocation has made, and no second invocation is on the stack.
C9_OneRenderInFlight ==
  stack # << >> => (Len(stack) = 1 /\ hookIndex = Last(stack).calls)

\* C10: a useForceUpdate(ctx) call on a committed, not destroyed instance
\* re-renders once and returns to its caller, wherever it is called from.
C10_ForceUpdateReturns ==
  \A o \in outcomes :
    (o.via = "force" /\ o.committedAtCall /\ ~o.destroyedAtCall) => o.outcome = "patched"

\* the bodies that have run
Ran == {k \in 1..Len(sched) : sched[k].ran}

\* C11: the bodies one render queued run in ascending hook index, and the
\* bodies of two renders do not interleave: all bodies of the one run before
\* any body of the other.
C11_EffectOrder ==
  /\ \A j, k \in Ran :
       (sched[j].inv = sched[k].inv /\ sched[j].slot < sched[k].slot)
         => sched[j].order < sched[k].order
  /\ \A j, k, l \in Ran :
       (sched[j].order < sched[k].order /\ sched[k].order < sched[l].order
          /\ sched[j].inv = sched[l].inv)
         => sched[k].inv = sched[j].inv

\* C12: a useEffect call without a dependency list queues its body, and a
\* call with a list identical position by position to the list the previous
\* render passed at the same call queues no body and invokes no cleanup.
C12_EffectRunsIffDepsChanged ==
  lastEffect.called =>
    /\ lastEffect.deps = NoDeps => lastEffect.queued
    /\ (~lastEffect.first /\ lastEffect.deps # NoDeps /\ lastEffect.prev = lastEffect.deps)
         => (~lastEffect.queued /\ lastEffect.cleanups = 0)

\* the bodies queued and not yet run, in the order they were queued
Pending == {k \in 1..Len(sched) : ~sched[k].ran}

\* C13: a queued body runs exactly once, at the next drain: until it runs it
\* stays in the microtask queue, once and in its place, whatever render,
\* state change or destroy() happens meanwhile; once run it is no longer in
\* the queue; and a drain goes on until the queue is empty.
C13_QueuedBodyRunsOnce ==
  /\ Len(microtasks) = Cardinality(Pending)
  /\ \A i \in 1..Len(microtasks) : microtasks[i].sched \in Pending
  /\ \A i, j \in 1..Len(microtasks) :
       i < j => microtasks[i].sched < microtasks[j].sched
  /\ draining => microtasks # << >>

\* C13 witness: a body ran that was queued while the instance was live, after
\* a further render had started and destroy() had been called
C13_Witness ==
  /\ lastRun.sched \in Ran
  /\ lastRun.renderedSince
  /\ lastRun.destroyedSince

\* every effect body that has run so far ran before destroy() was called
AllRanBeforeDestroy ==
  /\ lastRun.sched # 0
  /\ sched[lastRun.sched].liveAtQueue
  /\ ~lastRun.destroyedSince

\* C14: once destroy() has returned, every effect whose last body (run before
\* the destroy) returned a cleanup has had that cleanup invoked.
C14_DestroyRunsCleanups ==
  (destroyed /\ AllRanBeforeDestroy) =>
    \A i \in 0..(Len(hookStates) - 1) :
      Get(hookStates, i).cleanup # 0 => cleanupCalls[Get(hookStates, i).cleanup] >= 1

\* the .current of box b in the slot array hs, "none" when hs holds no box b
CurrentOf(hs, b) ==
  IF \E k \in 1..Len(hs) : hs[k].tag = "ref" /\ hs[k].value = b
  THEN (CHOOSE x \in {hs[k] : k \in 1..Len(hs)} : x.tag = "ref" /\ x.value = b).val
  ELSE "none"

\* a useRef call: the first call at an index allocates { current: RefInitial },
\* a later call at that index returns the box the call before returned there
\* and leaves its .current as it found it
RefCallKeepsBox ==
  lastRef.called =>
    /\ lastRef.prev = 0 => lastRef.current = RefInitial
    /\ lastRef.prev # 0 => (lastRef.ref = lastRef.prev /\ lastRef.current = lastRef.before)

\* a step that changes the .current of a box is a store by the caller's
\* code, and that step starts no render and queues nothing
OnlyCallerWritesCurrent ==
  \A b \in 1..boxes :
    (CurrentOf(hookStates, b) # "none" /\ CurrentOf(hookStates', b) # CurrentOf(hookStates, b))
      => /\ refWritten' = CurrentOf(hookStates', b)
         /\ stack' = stack
         /\ invocations' = invocations
         /\ hookIndex' = hookIndex
         /\ microtasks' = microtasks

\* C15: the first useRef call at a hook index allocates { current: initial };
\* every later call at that index returns the same box with .current as the
\* caller left it, whatever was written (null, undefined, 0, false); a store
\* into .current invokes no update(); nothing but the caller's store changes
\* .current.
C15_RefBoxPersists ==
  /\ []RefCallKeepsBox
  /\ [][OnlyCallerWritesCurrent]_vars

\* C15 witness: the caller wrote undefined into .current, and a later render's
\* useRef call returned the same box, .current still undefined
C15_Witness ==
  /\ lastRef.called
  /\ lastRef.prev # 0
  /\ lastRef.ref = lastRef.prev
  /\ refWritten = Undefined
  /\ lastRef.before = Undefined
  /\ lastRef.current = Undefined

\* both vnodes carry a class map, and the new map keeps every entry of the
\* old map and adds names with true
KeepsAndAdds(old, new) ==
  /\ old.id # 0
  /\ new.id # 0
  /\ \A n \in Names :
       IF old.entries[n] # "absent" THEN new.entries[n] = old.entries[n]
       ELSE new.entries[n] \in {"absent", "true"}

AddedNames(old, new) ==
  {n \in Names : old.entries[n] = "absent" /\ new.entries[n] = "true"}

\* the calls ops are exactly one add for each name of S
AddsExactly(ops, S) ==
  /\ \A i \in 1..Len(ops) : ops[i].op = "add" /\ ops[i].name \in S
  /\ Len(ops) = Cardinality(S)
  /\ \A n \in S : \E i \in 1..Len(ops) : ops[i].name = n

\* C16 as stated: an update from an old class map to a new one that keeps
\* every old entry and adds names with true makes exactly one add call for
\* each added name and no other classList call.
C16_AddsOnlyNewNames ==
  (lastClass.called /\ lastClass.hook = "update" /\ KeepsAndAdds(lastClass.old, lastClass.new))
    => AddsExactly(lastClass.ops, AddedNames(lastClass.old, lastClass.new))

\* C16 amended: the same, for a new vnode that carries no className.
C16_AddsOnlyNewNames_NoClassName ==
  (lastClass.called /\ lastClass.hook = "update" /\ lastClass.className = << >>
     /\ KeepsAndAdds(lastClass.old, lastClass.new))
    => AddsExactly(lastClass.ops, AddedNames(lastClass.old, lastClass.new))

\* C16 witness: the update from {a: true} to {a: true, b: true} made the one
\* call add("b")
C16_Witness ==
  /\ lastClass.called
  /\ lastClass.hook = "update"
  /\ lastClass.className = << >>
  /\ lastClass.old.entries = [n \in Names |-> IF n = <<"a">> THEN "true" ELSE "absent"]
  /\ lastClass.new.entries = [n \in Names |-> "true"]
  /\ lastClass.old.id # lastClass.new.id
  /\ lastClass.ops = <<Call("add", <<"b">>)>>

\* the names whose value is true in the class map of the element's vnode
TrueNames == {n \in Names : elmVnode.class.entries[n] = "true"}

\* C20: for an element driven only by the create and update hooks of the
\* class module, with vnodes that carry no className and class maps that are
\* objects of their own, after every create or update the names added to the
\* element and not removed are exactly the names true in the latest map.
C20_ClassListIsTrueNames ==
  (elmVnode.made /\ allDistinct /\ noClassName) => classList = TrueNames

\* C20 witness: after a create and an update, the latest update dropped the
\* name a, which was true, and flipped b from false to true; the element
\* holds b alone
C20_Witness ==
  /\ lastClass.hook = "update"
  /\ allDistinct
  /\ noClassName
  /\ lastClass.old.entries[<<"a">>] = "true"
  /\ lastClass.new.entries[<<"a">>] = "absent"
  /\ lastClass.old.entries[<<"b">>] = "false"
  /\ lastClass.new.entries[<<"b">>] = "true"
  /\ classList = {<<"b">>}

\* C17: under any interleaving of renders and drains (here: of renders
\* started by top-level code, none re-entered), every cleanup a body
\* returned is invoked at most once, and once a later body of the same effect
\* has run (its result replaces the stored cleanup), the cleanup the earlier
\* run returned has been invoked: none is dropped.
C17_CleanupAtMostOnceNoneDropped ==
  (\A k \in 1..Len(sched) : sched[k].plain) =>
    /\ \A c \in 1..Len(cleanupCalls) : cleanupCalls[c] <= 1
    /\ \A j, k \in Ran :
         (sched[j].slot = sched[k].slot /\ sched[j].order < sched[k].order /\ sched[j].ret)
           => cleanupCalls[j] >= 1

\* the update() calls of top-level code that ended with the error of line 35
\* (the instance was destroyed)
Rejected ==
  {o \in outcomes : o.via = "direct" /\ o.outcome = "throwNull"}

\* C18: an update() call rejected with an error has done nothing else: it
\* started no componentFn invocation, so no hook ran (hookStates and
\* hookIndex untouched, no cleanup invoked) and no effect body was queued.
C18_RejectedUpdateDidNothing ==
  \A o \in Rejected :
    /\ o.id = 0
    /\ o.hooks = 0
    /\ \A k \in 1..Len(sched) : sched[k].inv # o.id

\* the step is a call of a setter of the first instance: it enters update(),
\* which starts a componentFn invocation or overflows the stack
SetterStep ==
  \/ Len(stack') = Len(stack) + 1 /\ Last(stack').via = "set"
  \/ /\ stack # << >>
     /\ stack' = << >>
     /\ \E o \in outcomes' : o.id = 0 /\ o.via = "set"

\* the slot the setter called in this step was created for
SetterIndex == IF stack = << >> THEN 0 ELSE Last(stack).stateIndex

\* C19: a call of a useState setter, fresh or stale, changes no slot of
\* hookStates but its own and no slot of another instance's hookStates at the
\* moment of its write; a setter call of the other instance changes no slot
\* of this one; and hookStates never gets shorter.
C19_SetterWritesOnlyItsSlot ==
  [][/\ SetterStep =>
          /\ \A i \in 0..(Len(hookStates) - 1) :
               i # SetterIndex => Get(hookStates', i) = Get(hookStates, i)
          /\ SiblingStates' = SiblingStates
     /\ SiblingStates' # SiblingStates => hookStates' = hookStates
     /\ Len(hookStates') >= Len(hookStates)
     /\ Len(SiblingStates') >= Len(SiblingStates)]_vars

\* C19 witness: just after a stale setter, called by top-level code, stored
\* "1": the ref slot next to its slot and the second instance's state slot,
\* which holds another value, are in place
C19_Witness ==
  /\ Len(stack) = 1
  /\ stack[1].via = "set" /\ stack[1].where = "top" /\ stack[1].pc = 1
  /\ Get(hookStates, 0) = ValueSlot("1")
  /\ Get(hookStates, 1).tag = "ref"
  /\ siblingMade
  /\ Get(siblingStates, 0) = ValueSlot(Initial)
  /\ Get(siblingStates, 1).tag = "ref"

====
